---- MODULE Spec2Model ----
(***************************************************************************)
(* lego-etcd: certificates of an ACME certificate authority kept in etcd   *)
(* (v2 keys API) and shared by several service instances.                  *)
(*                                                                         *)
(* The model follows legoetcd/service/service.go (Service.Run, the         *)
(* bootstrap of the certificate, the renewal loop, the watch goroutine),   *)
(* the lock file of the service package (Lock, Unlock,                     *)
(* WaitForLockDeletion), legoetcd/cert.go (LoadCert, Reload, Renew,       *)
(* Save), legoetcd/account.go (Load, Save, GenerateKey) and the client     *)
(* file of legoetcd (setupAccount, RegisterAccount).  Every request to     *)
(* etcd is one atomic step; what a task does between two requests is       *)
(* folded into the step of the request before it.                          *)
(*                                                                         *)
(* etcd (v2) as the code uses it:                                          *)
(*   - Set with PrevNoExist creates the key (event action "create") or     *)
(*     fails with ErrorCodeNodeExist;                                      *)
(*   - Set with PrevIgnore writes the key (event action "set");            *)
(*   - Delete with PrevValue is a compare-and-delete: it removes the key   *)
(*     when the value matches (event action "compareAndDelete") and fails  *)
(*     otherwise;                                                          *)
(*   - a key with a TTL is removed by the store when the TTL elapses       *)
(*     (event action "expire");                                            *)
(*   - Watcher(key, nil).Next waits for the first event on the key after   *)
(*     the request reaches the store, whether the key exists or not; a     *)
(*     watcher that has returned an event continues after that event's     *)
(*     index.                                                              *)
(***************************************************************************)
EXTENDS Integers, FiniteSets, Sequences, TLC

\* ------------------------------------------------------------------ bounds

\* Number of processes (service instances) sharing the store.
NumProcs == 2

\* Number of store requests that may fail (I/O error, timeout) in a behaviour.
MaxFaults == 1

\* Number of ticks the tickers deliver in a behaviour.
MaxTicks == 2

\* Number of events a watcher of the .cert key may be owed when somebody
\* outside the service writes to the store.
MaxPending == 2

\* minimumDurationForRenewal = 45 * 24 * time.Hour, in days.
MinimumDurationForRenewal == 45

Procs == 1..NumProcs

VARIABLES
  store,        \* etcd: the keys of one primary domain; a set per key, {} = no key
  lockEv,       \* per process: its watch on the lock key
  okSet,        \* history: processes whose Lock succeeded since the lock key was last absent
  exSet,        \* history: processes whose Lock got ErrLockExists since then
  pc,           \* per process: position of its main task
  faults,       \* store requests failed so far
  generatePEM,  \* Service.generatePEM
  mem,          \* per process: the *Cert named cert in Run and in generateCertificateIfNecessary
  newc,         \* per process: the *Cert NewCert returned (generateCertificateIfNecessary, else block)
  branch,       \* history, per process: how the Lock of its bootstrap ended
  issued,       \* serial of the last certificate the CA issued
  obtainCalls,  \* history: processes that called the CA's obtain-certificate, in order
  wpc,          \* per process: position of its watch goroutine
  wq,           \* per process: events on the .cert key its watcher has not returned yet
  wIdx,         \* per process: its watcher continues after an index (has returned an event)
  stopped,      \* per process: StopChan is closed
  tickPending,  \* per process: a tick is waiting in the ticker's channel
  ticks,        \* ticks delivered so far
  got,          \* per process: what its consumer received last on CertChan
  tickExp,      \* history, per process: what ExpiresIn returned in the tick being processed
  tickLock,     \* history, per process: how the Lock of the tick being processed ended
  expired,      \* history: the TTL of a lock key has elapsed
  acceptTOS,    \* Service.acceptTOS
  acct,         \* per process: the *Account it works on (acc, then c.Account)
  keyGen,       \* serial of the last account key GenerateKey made
  agreeCalls    \* history: processes that called the CA's AgreeToTOS

lockVars == <<lockEv, okSet, exSet, expired>>
kvVars == <<store, lockVars>>
certVars == <<mem, newc, branch, issued, obtainCalls>>
runVars == <<wpc, wIdx, stopped, tickPending, ticks, got, tickExp, tickLock>>

acctVars == <<acceptTOS, acct, keyGen, agreeCalls>>

vars == <<store, lockVars, pc, faults, generatePEM, acctVars, certVars, wq, runVars>>

\* ------------------------------------------------------------------- store

\* A key that does not exist.
Absent == {}

\* lockContents: "<hostname>-<pid>", one token per process.
lockContents(p) == {p}

\* The value of a key that exists.
Val(k) == CHOOSE v \in store[k] : TRUE

\* Every process whose watch on the lock key is waiting receives the event.
NotifyLock(action) ==
  [q \in Procs |-> IF lockEv[q] = "armed" THEN action ELSE lockEv[q]]

\* The watcher of the .cert key of every instance that is waiting in Next, or
\* continues after an index, is owed the event.
NotifyCert(action) ==
  [q \in Procs |-> IF wIdx[q] \/ wpc[q] = "w_wait"
                   THEN Append(wq[q], action) ELSE wq[q]]

Goto(p, l) == pc' = [pc EXCEPT ![p] = l]

\* A store request fails: nothing is written.
Fault == /\ faults < MaxFaults
         /\ faults' = faults + 1

\* client.SetOptions{PrevExist: client.PrevIgnore}: the write is unconditional.
PrevIgnore(k) == TRUE

\* The lock written without the condition.
PrevNoExist_Unconditional(k) == TRUE

\* client.SetOptions{PrevExist: client.PrevNoExist}: the key must not exist.
PrevNoExist(k) == store[k] = Absent

\* A delete that does not compare.
PrevValue_Unconditional(k, v) == store[k] # Absent

\* client.DeleteOptions{PrevValue: v}: the key must hold v.
PrevValue(k, v) == store[k] = v

\* --------------------------------------------------------------- lock file
\* The operators of this section say what happens to store, lockVars, pc and
\* faults; the action that uses one says what happens to the rest.

\* Lock: Set(path, lockContents(), PrevNoExist, TTL 1h).  ok, exists, err name
\* the position the caller continues at when Lock returns nil, ErrLockExists,
\* or another client.Error.  An error that is not a client.Error (a timeout,
\* an unreachable cluster) makes the type assertion err.(client.Error) panic.
Lock(p, ok, exists, err) ==
  \/ /\ PrevNoExist("lock")
     /\ store' = [store EXCEPT !.lock = lockContents(p)]
     /\ lockEv' = NotifyLock("create")
     /\ okSet' = okSet \cup {p}
     /\ Goto(p, ok)
     /\ UNCHANGED <<exSet, expired, faults>>
  \/ /\ ~PrevNoExist("lock")
     /\ exSet' = exSet \cup {p}
     /\ Goto(p, exists)
     /\ UNCHANGED <<store, lockEv, okSet, expired, faults>>
  \/ /\ Fault
     /\ Goto(p, err)
     /\ UNCHANGED kvVars
  \/ /\ Fault
     /\ Goto(p, "panicked")
     /\ UNCHANGED kvVars

\* An Unlock that sends nothing to the store.
Unlock_Forgotten(p, next, fail) ==
  /\ Goto(p, next)
  /\ UNCHANGED <<kvVars, faults>>

\* Unlock: Delete(path, PrevValue: lockContents()).  next, fail name the
\* position the caller continues at when Unlock returns nil, or the error of
\* the request (the compare failed, the key is not there, the request failed).
Unlock(p, next, fail) ==
  \/ /\ PrevValue("lock", lockContents(p))
     /\ store' = [store EXCEPT !.lock = Absent]
     /\ lockEv' = NotifyLock("compareAndDelete")
     /\ okSet' = {}
     /\ exSet' = {}
     /\ Goto(p, next)
     /\ UNCHANGED <<expired, faults>>
  \/ /\ ~PrevValue("lock", lockContents(p))
     /\ Goto(p, fail)
     /\ UNCHANGED <<kvVars, faults>>
  \/ /\ Fault
     /\ Goto(p, fail)
     /\ UNCHANGED kvVars

\* WaitForLockDeletion, top of the loop: a new watcher, and its Next reaches
\* the store.
WaitWatch(p, watching, err) ==
  \/ /\ lockEv' = [lockEv EXCEPT ![p] = "armed"]
     /\ Goto(p, watching)
     /\ UNCHANGED <<store, okSet, exSet, expired, faults>>
  \/ /\ Fault
     /\ Goto(p, err)
     /\ UNCHANGED kvVars

\* WaitForLockDeletion, Next returns: nil on a "delete", the loop again on any
\* other action; an error of the request is returned.
WaitNext(p, again, done, err) ==
  \/ /\ lockEv[p] \notin {"idle", "armed"}
     /\ lockEv' = [lockEv EXCEPT ![p] = "idle"]
     /\ Goto(p, IF lockEv[p] = "delete" THEN done ELSE again)
     /\ UNCHANGED <<store, okSet, exSet, expired, faults>>
  \/ /\ Fault
     /\ lockEv' = [lockEv EXCEPT ![p] = "idle"]
     /\ Goto(p, err)
     /\ UNCHANGED <<store, okSet, exSet, expired>>

\* The TTL of the lock key (1 hour) elapses.
Expire ==
  /\ store.lock # Absent
  /\ store' = [store EXCEPT !.lock = Absent]
  /\ lockEv' = NotifyLock("expire")
  /\ okSet' = {}
  /\ exSet' = {}
  /\ expired' = TRUE
  /\ UNCHANGED <<pc, faults, generatePEM, acctVars, certVars, wq, runVars>>

\* ------------------------------------------- the lock file used on its own

CallLock(p) ==
  /\ pc[p] \in {"idle", "unlock_err"}
  /\ Lock(p, "held", "denied", "idle")
  /\ UNCHANGED <<generatePEM, acctVars, certVars, wq, runVars>>

CallUnlock(p) ==
  /\ pc[p] = "held"
  /\ Unlock(p, "idle", "unlock_err")
  /\ UNCHANGED <<generatePEM, acctVars, certVars, wq, runVars>>

CallWaitWatch(p) ==
  /\ pc[p] \in {"denied", "wait", "wait_create"}
  /\ WaitWatch(p, "watching", "idle")
  /\ UNCHANGED <<generatePEM, acctVars, certVars, wq, runVars>>

\* The position at the top of the loop records that the event just received
\* was the creation of the lock key, which is no removal.
CallWaitNext(p) ==
  /\ pc[p] = "watching"
  /\ WaitNext(p, IF lockEv[p] = "create" THEN "wait_create" ELSE "wait",
              "idle", "idle")
  /\ UNCHANGED <<generatePEM, acctVars, certVars, wq, runVars>>

EmptyStore == [lock |-> Absent, cert |-> Absent, meta |-> Absent,
               key |-> Absent, pem |-> Absent,
               reg |-> Absent, akey |-> Absent]

\* &Account{email: email}: no registration, no key.
NewAccount == [reg |-> [isNil |-> TRUE, agreed |-> FALSE], key |-> 0]

\* s.domains, the domain list the service is made for; the first one is the
\* primary domain.
Domains == <<"example.org", "www.example.org">>

\* A nil *Cert.
NilCert == [isNil |-> TRUE, domains |-> <<>>, meta |-> 0, cert |-> 0, key |-> 0]

\* &Cert{Domains: domains, Cert: acme.CertificateResource{}}
EmptyCert ==
  [isNil |-> FALSE, domains |-> Domains, meta |-> 0, cert |-> 0, key |-> 0]

\* The lock key is absent, nobody watches, nothing has failed.
QuietInit ==
  /\ lockEv = [p \in Procs |-> "idle"]
  /\ okSet = {}
  /\ exSet = {}
  /\ expired = FALSE
  /\ faults = 0
  /\ newc = [p \in Procs |-> NilCert]
  /\ branch = [p \in Procs |-> "none"]
  /\ obtainCalls = {}
  /\ wq = [p \in Procs |-> <<>>]
  /\ wIdx = [p \in Procs |-> FALSE]
  /\ stopped = [p \in Procs |-> FALSE]
  /\ tickPending = [p \in Procs |-> FALSE]
  /\ ticks = 0
  /\ got = [p \in Procs |-> NilCert]
  /\ tickExp = [p \in Procs |-> 0]
  /\ tickLock = [p \in Procs |-> "none"]
  /\ acct = [p \in Procs |-> NewAccount]
  /\ agreeCalls = {}

LockInit ==
  /\ QuietInit
  /\ acceptTOS = FALSE
  /\ keyGen = 0
  /\ store = EmptyStore
  /\ pc = [p \in Procs |-> "idle"]
  /\ generatePEM = FALSE
  /\ mem = [p \in Procs |-> NilCert]
  /\ issued = 0
  /\ wpc = [p \in Procs |-> "off"]

LockNext ==
  \/ \E p \in Procs : CallLock(p)
  \/ \E p \in Procs : CallUnlock(p)
  \/ \E p \in Procs : CallWaitWatch(p)
  \/ \E p \in Procs : CallWaitNext(p)
  \/ Expire

SpecLock == LockInit /\ [][LockNext]_vars

\* C2: among the Lock calls served while the lock key stays in place (none
\* before it, no expiry and no release since), exactly one succeeded, every
\* other got ErrLockExists, and the key holds the token of the one that
\* succeeded and no other.
C2_OneLockHolder ==
  /\ Cardinality(store.lock) <= 1
  /\ (okSet \cup exSet) # {} =>
       /\ Cardinality(okSet) = 1
       /\ store.lock = UNION {lockContents(p) : p \in okSet}

C2_Witness ==
  /\ Cardinality(okSet) = 1
  /\ exSet # {}
  /\ exSet \cap okSet = {}

\* C11: a process waiting in WaitForLockDeletion that receives the
\* notification of a successful Unlock returns (nil) on it.
C11_ReleaseWakesWaiter ==
  [][\A p \in Procs :
       (pc[p] = "watching" /\ lockEv[p] = "compareAndDelete"
          /\ lockEv'[p] = "idle" /\ faults' = faults)
         => pc'[p] = "idle"]_vars

\* C12: Unlock removes the lock key when, and only when, the key holds the
\* caller's token, and then returns nil; otherwise it returns an error and
\* leaves the key as it is, whoever holds it now.
C12_UnlockOnlyOwnToken ==
  [][\A p \in Procs :
       (pc[p] = "held" /\ pc'[p] # "held") =>
         IF store.lock = lockContents(p) /\ faults' = faults
         THEN store'.lock = Absent /\ pc'[p] = "idle"
         ELSE store'.lock = store.lock /\ pc'[p] = "unlock_err"]_vars

C12_Witness ==
  \E p \in Procs :
    /\ pc[p] = "unlock_err"
    /\ faults = 0
    /\ expired
    /\ store.lock # Absent
    /\ store.lock # lockContents(p)

\* -------------------------------------------------------------- certificate

\* The material of the n-th certificate the CA issued: certificate bytes,
\* private key, and the resource (domain, URLs) that saveMeta writes as JSON.
Material(n) ==
  [isNil |-> FALSE, domains |-> Domains, meta |-> n, cert |-> n, key |-> n]

\* A PEM with the private key first.
PEM_KeyFirst(c) == <<c.key, c.cert>>

\* Cert.PEM: bytes.Join of the certificate and the private key.
PEM(c) == <<c.cert, c.key>>

\* The three keys LoadCert and Reload read all exist.
RecordComplete ==
  /\ store.meta # Absent
  /\ store.cert # Absent
  /\ store.key # Absent

\* The store with the record of certificate 1 written by a Save.
StoredRecord(st) ==
  [st EXCEPT !.meta = {Material(1).meta}, !.cert = {Material(1).cert},
             !.key = {Material(1).key},
             !.pem = IF generatePEM THEN {PEM(Material(1))} ELSE Absent]

\* A registration as saveRegistration writes it.
Registration(agreed) == [isNil |-> FALSE, agreed |-> agreed]

\* The store after an account bootstrap that went through: the registration,
\* with the agreement, and account key 1.
AccountStore ==
  [EmptyStore EXCEPT !.reg = {Registration(TRUE)}, !.akey = {1}]

\* Init of the specifications that start after the account bootstrap.
AccountReady ==
  /\ acceptTOS = TRUE
  /\ keyGen = 1

\* kapi.Set(key, value, PrevIgnore) of saveCert, saveMeta, saveKey, savePem:
\* says what happens to store, wq, pc and faults.
Put(p, k, v, next, fail) ==
  \/ /\ PrevIgnore(k)
     /\ store' = [store EXCEPT ![k] = {v}]
     /\ wq' = IF k = "cert" THEN NotifyCert("set") ELSE wq
     /\ Goto(p, next)
     /\ UNCHANGED faults
  \/ /\ Fault
     /\ Goto(p, fail)
     /\ UNCHANGED <<store, wq>>

\* Cert.Save after saveMeta: the key when there is one, ErrNoPemForCSR when
\* there is none and a PEM is asked for.
AfterSaveMeta(c, saveKey, done, fail) ==
  IF c.key # 0 THEN saveKey ELSE IF generatePEM THEN fail ELSE done

\* Cert.Save after saveKey.
AfterSaveKey(savePem, done) == IF generatePEM THEN savePem ELSE done

\* ------------------------------------------------ Cert.Save used on its own
\* Every process calls Save(ec, generatePEM) on a certificate of its own, with
\* or without a private key (a certificate obtained for a CSR has none).

CallSaveCert(p) ==
  /\ pc[p] = "s_save_cert"
  /\ Put(p, "cert", mem[p].cert, "s_save_meta", "s_err")
  /\ UNCHANGED <<lockVars, generatePEM, acctVars, certVars, runVars>>

CallSaveMeta(p) ==
  /\ pc[p] = "s_save_meta"
  /\ Put(p, "meta", mem[p].meta,
         AfterSaveMeta(mem[p], "s_save_key", "s_ok", "s_err_nopem"), "s_err")
  /\ UNCHANGED <<lockVars, generatePEM, acctVars, certVars, runVars>>

CallSaveKey(p) ==
  /\ pc[p] = "s_save_key"
  /\ Put(p, "key", mem[p].key, AfterSaveKey("s_save_pem", "s_ok"), "s_err")
  /\ UNCHANGED <<lockVars, generatePEM, acctVars, certVars, runVars>>

CallSavePem(p) ==
  /\ pc[p] = "s_save_pem"
  /\ Put(p, "pem", PEM(mem[p]), "s_ok", "s_err")
  /\ UNCHANGED <<lockVars, generatePEM, acctVars, certVars, runVars>>

\* Save has returned: nil, ErrNoPemForCSR, the error of a store request.
SaveDone == {"s_ok", "s_err_nopem", "s_err"}

\* Certificates 2 and 3 of the CA, each with its key or for a CSR.
SaveInputs ==
  {[Material(n) EXCEPT !.key = k] : n \in {2, 3}, k \in {0, 2, 3}}

SaveInit ==
  /\ QuietInit
  /\ AccountReady
  /\ generatePEM \in BOOLEAN
  /\ issued = 3
  /\ store \in {AccountStore, StoredRecord(AccountStore)}
  /\ mem \in [Procs -> SaveInputs]
  /\ pc = [p \in Procs |-> "s_save_cert"]
  /\ wpc = [p \in Procs |-> "off"]

SaveNext ==
  \/ \E p \in Procs : CallSaveCert(p)
  \/ \E p \in Procs : CallSaveMeta(p)
  \/ \E p \in Procs : CallSaveKey(p)
  \/ \E p \in Procs : CallSavePem(p)

SpecSave == SaveInit /\ [][SaveNext]_vars

\* C19: Save with pem on a certificate without private key returns
\* ErrNoPemForCSR (unless a store request failed before); Save with pem on a
\* certificate with a private key returns nil only from the write of the
\* .pem key, and what that write leaves there is the certificate followed by
\* the private key; Save without pem does not write the .pem key.
C19_PemConsistency ==
  /\ [](\A p \in Procs :
          /\ pc[p] = "s_err_nopem" => (generatePEM /\ mem[p].key = 0)
          /\ (generatePEM /\ mem[p].key = 0 /\ pc[p] \in SaveDone)
               => pc[p] \in {"s_err_nopem", "s_err"})
  /\ [][\A p \in Procs :
          (generatePEM /\ pc[p] # "s_ok" /\ pc'[p] = "s_ok")
            => /\ pc[p] = "s_save_pem"
               /\ mem[p].key # 0
               /\ store'.pem = {<<mem[p].cert, mem[p].key>>}]_vars
  /\ [][~generatePEM => store'.pem = store.pem]_vars

C19_Witness ==
  /\ generatePEM
  /\ \E p, q \in Procs :
       /\ pc[p] = "s_err_nopem"
       /\ pc[q] = "s_ok"
       /\ store.pem = {<<mem[q].cert, mem[q].key>>}

\* ---------------------------------------- generateCertificateIfNecessary

\* LoadCert, one of loadMeta, loadCert, loadKey: the key is read into the
\* certificate being loaded; when the read fails LoadCert returns nil and the
\* error, and the caller goes on to the lock.
GenLoad(p, k, next) ==
  /\ \/ /\ store[k] # Absent
        /\ mem' = [mem EXCEPT ![p] =
                     [(IF k = "meta" THEN EmptyCert ELSE mem[p]) EXCEPT ![k] = Val(k)]]
        /\ Goto(p, next)
        /\ UNCHANGED faults
     \/ /\ store[k] = Absent
        /\ mem' = [mem EXCEPT ![p] = NilCert]
        /\ Goto(p, "g_lock")
        /\ UNCHANGED faults
     \/ /\ Fault
        /\ mem' = [mem EXCEPT ![p] = NilCert]
        /\ Goto(p, "g_lock")
  /\ UNCHANGED <<kvVars, generatePEM, acctVars, newc, branch, issued, obtainCalls, wq, runVars>>

GenLoadMeta(p) == pc[p] = "g_load_meta" /\ GenLoad(p, "meta", "g_load_cert")

GenLoadCert(p) == pc[p] = "g_load_cert" /\ GenLoad(p, "cert", "g_load_key")

GenLoadKey(p) == pc[p] = "g_load_key" /\ GenLoad(p, "key", "g_ok")

\* s.Lock(etcdClient, lockPath): an error other than ErrLockExists falls
\* through to the Reload.
GenLock(p) ==
  /\ pc[p] = "g_lock"
  /\ Lock(p, "g_newcert", "g_wait", "g_reload")
  /\ branch' = [branch EXCEPT ![p] =
       CASE pc'[p] = "g_newcert" -> "self"
         [] pc'[p] = "g_wait" -> "other"
         [] OTHER -> "lockerr"]
  /\ UNCHANGED <<generatePEM, acctVars, mem, newc, issued, obtainCalls, wq, runVars>>

GenWaitWatch(p) ==
  /\ pc[p] = "g_wait"
  /\ WaitWatch(p, "g_watching", "g_err")
  /\ UNCHANGED <<generatePEM, acctVars, certVars, wq, runVars>>

GenWaitNext(p) ==
  /\ pc[p] = "g_watching"
  /\ WaitNext(p, "g_wait", "g_reload", "g_err")
  /\ UNCHANGED <<generatePEM, acctVars, certVars, wq, runVars>>

\* acmeClient.NewCert in the else block: cert, failures := ... declares a new
\* cert; the cert LoadCert returned stays nil.  With failures the function
\* returns ErrGeneratingCert through the deferred Unlock.
GenNewCert(p) ==
  /\ pc[p] = "g_newcert"
  /\ obtainCalls' = obtainCalls \cup {p}
  /\ \/ /\ issued' = issued + 1
        /\ newc' = [newc EXCEPT ![p] = Material(issued + 1)]
        /\ Goto(p, "g_save_cert")
     \/ /\ Goto(p, "g_unlock_err")
        /\ UNCHANGED <<issued, newc>>
  /\ UNCHANGED <<kvVars, faults, generatePEM, acctVars, mem, branch, wq, runVars>>

GenSaveCert(p) ==
  /\ pc[p] = "g_save_cert"
  /\ Put(p, "cert", newc[p].cert, "g_save_meta", "g_unlock_err")
  /\ UNCHANGED <<lockVars, generatePEM, acctVars, certVars, runVars>>

GenSaveMeta(p) ==
  /\ pc[p] = "g_save_meta"
  /\ Put(p, "meta", newc[p].meta,
         AfterSaveMeta(newc[p], "g_save_key", "g_reload", "g_unlock_err"),
         "g_unlock_err")
  /\ UNCHANGED <<lockVars, generatePEM, acctVars, certVars, runVars>>

GenSaveKey(p) ==
  /\ pc[p] = "g_save_key"
  /\ Put(p, "key", newc[p].key, AfterSaveKey("g_save_pem", "g_reload"), "g_unlock_err")
  /\ UNCHANGED <<lockVars, generatePEM, acctVars, certVars, runVars>>

GenSavePem(p) ==
  /\ pc[p] = "g_save_pem"
  /\ Put(p, "pem", PEM(newc[p]), "g_reload", "g_unlock_err")
  /\ UNCHANGED <<lockVars, generatePEM, acctVars, certVars, runVars>>

\* cert.Reload(etcdClient) on the cert LoadCert returned, which is nil on
\* every path that reaches this line: loadMeta evaluates c.Domains[0] and the
\* process panics.  The deferred Unlock of the else block runs first.
GenReload(p) ==
  /\ pc[p] = "g_reload"
  /\ mem[p].isNil
  /\ Goto(p, IF branch[p] = "self" THEN "g_unlock_panic" ELSE "panicked")
  /\ UNCHANGED <<kvVars, faults, generatePEM, acctVars, certVars, wq, runVars>>

\* The deferred Unlock, on the way out with an error.
GenUnlockErr(p) ==
  /\ pc[p] = "g_unlock_err"
  /\ Unlock(p, "g_err", "g_err")
  /\ UNCHANGED <<generatePEM, acctVars, certVars, wq, runVars>>

\* The deferred Unlock, while the panic unwinds.
GenUnlockPanic(p) ==
  /\ pc[p] = "g_unlock_panic"
  /\ Unlock(p, "panicked", "panicked")
  /\ UNCHANGED <<generatePEM, acctVars, certVars, wq, runVars>>

\* generateCertificateIfNecessary is over: it returned the certificate, it
\* returned an error, or the process panicked.
BootDone == {"g_ok", "g_err", "panicked"}

BootStep(p) ==
  \/ GenLoadMeta(p)
  \/ GenLoadCert(p)
  \/ GenLoadKey(p)
  \/ GenLock(p)
  \/ GenWaitWatch(p)
  \/ GenWaitNext(p)
  \/ GenNewCert(p)
  \/ GenSaveCert(p)
  \/ GenSaveMeta(p)
  \/ GenSaveKey(p)
  \/ GenSavePem(p)
  \/ GenReload(p)
  \/ GenUnlockErr(p)
  \/ GenUnlockPanic(p)

\* Every process calls generateCertificateIfNecessary; the store holds no
\* certificate record, or a complete one.
BootInit ==
  /\ QuietInit
  /\ generatePEM \in BOOLEAN
  /\ issued \in {0, 1}
  /\ AccountReady
  /\ store = IF issued = 0 THEN AccountStore
             ELSE StoredRecord(AccountStore)
  /\ pc = [p \in Procs |-> "g_load_meta"]
  /\ mem = [p \in Procs |-> NilCert]
  /\ wpc = [p \in Procs |-> "off"]

BootNext ==
  \/ \E p \in Procs : BootStep(p)
  \/ Expire

SpecBoot == BootInit /\ [][BootNext]_vars

\* Every process is scheduled and a store request that does not fail is
\* answered; the TTL runs.  Nothing obliges a request to fail.
FairSpecBoot ==
  /\ SpecBoot
  /\ \A p \in Procs : WF_vars(BootStep(p) /\ faults' = faults)
  /\ WF_vars(Expire)

\* C1: when nothing fails (no store request, no issuance) and no lock
\* expires, the processes that bootstrap from a store without a certificate
\* record call the CA's obtain-certificate once in total.
C1_SingleIssuer ==
  (faults = 0 /\ ~expired /\ issued = Cardinality(obtainCalls))
    => Cardinality(obtainCalls) <= 1

\* C3: a process that took the lock in the bootstrap, got the certificate from
\* the CA and met no store failure leaves generateCertificateIfNecessary with
\* the certificate and no error; the record is stored and the lock is no
\* longer its own.
C3_SelfBranchReturnsCert ==
  \A p \in Procs :
    (branch[p] = "self" /\ ~newc[p].isNil /\ faults = 0 /\ pc[p] \in BootDone)
      => /\ pc[p] = "g_ok"
         /\ ~mem[p].isNil
         /\ RecordComplete
         /\ store.lock # lockContents(p)

\* C15: a process whose NewCert reported failures writes no key of the
\* certificate record from then on, leaves generateCertificateIfNecessary
\* with the error, delivers nothing, and, unless a store request failed, no
\* longer has its token in the lock key once it has left.
C15_FailedIssuanceWritesNothing ==
  /\ [](\A p \in Procs :
          (p \in obtainCalls /\ newc[p].isNil) =>
            /\ pc[p] \in {"g_unlock_err", "g_err"}
            /\ got[p].isNil
            /\ (pc[p] = "g_err" /\ faults = 0) => store.lock # lockContents(p))
  /\ [][\A p \in Procs :
          (p \in obtainCalls /\ newc[p].isNil /\ pc'[p] # pc[p]) =>
            /\ store'.cert = store.cert
            /\ store'.meta = store.meta
            /\ store'.key = store.key
            /\ store'.pem = store.pem]_vars

C15_Witness ==
  \E p \in Procs :
    /\ p \in obtainCalls
    /\ newc[p].isNil
    /\ pc[p] = "g_err"
    /\ faults = 0
    /\ store.lock = Absent
    /\ store.cert = Absent

\* C4: a process that found the lock taken returns the stored certificate,
\* without a call to the CA, once the lock is gone and the record is complete
\* (unless a store request fails or a lock expires).
C4_WaiterReturnsStored ==
  \A p \in Procs :
    (branch[p] = "other" /\ store.lock = Absent /\ RecordComplete)
      ~> ((pc[p] = "g_ok" /\ p \notin obtainCalls) \/ faults > 0 \/ expired)

\* ------------------------------------------------------------- Service.Run
\* Run from the go statement on: generateCertificateIfNecessary has returned
\* the certificate.  An instance whose wpc is "off" stands for an instance
\* seen from the store alone: its renewal loop, without its watch goroutine,
\* its consumer and its stop channel.

\* The process has not died of a panic.
Alive(p) == pc[p] # "panicked" /\ wpc[p] # "w_panicked"

\* What cert.ExpiresIn can return: the days left, or 0 and an error.
ExpiresIn ==
  {MinimumDurationForRenewal - 1, MinimumDurationForRenewal,
   MinimumDurationForRenewal + 1, 0}

\* The consumer receives what Run itself sends: s.CertChan <- cert.
RecvMain(p) ==
  /\ Alive(p)
  /\ pc[p] = "deliver"
  /\ got' = [got EXCEPT ![p] = mem[p]]
  /\ Goto(p, "select")
  /\ UNCHANGED <<kvVars, faults, generatePEM, acctVars, certVars, wq,
                 wpc, wIdx, stopped, tickPending, ticks, tickExp, tickLock>>

\* A send that does not wait for the consumer.
RecvWatch_NonBlocking(p) ==
  /\ Alive(p)
  /\ wpc[p] = "w_send"
  /\ wpc' = [wpc EXCEPT ![p] = "w_next"]
  /\ UNCHANGED <<kvVars, pc, faults, generatePEM, acctVars, certVars, wq,
                 wIdx, stopped, tickPending, ticks, got, tickExp, tickLock>>

\* The consumer receives what the watch goroutine sends.
RecvWatch(p) ==
  /\ Alive(p)
  /\ wpc[p] = "w_send"
  /\ got' = [got EXCEPT ![p] = mem[p]]
  /\ wpc' = [wpc EXCEPT ![p] = "w_next"]
  /\ UNCHANGED <<kvVars, pc, faults, generatePEM, acctVars, certVars, wq,
                 wIdx, stopped, tickPending, ticks, tickExp, tickLock>>

\* The consumer closes StopChan.
Stop(p) ==
  /\ Alive(p)
  /\ wpc[p] # "off"
  /\ ~stopped[p]
  /\ stopped' = [stopped EXCEPT ![p] = TRUE]
  /\ UNCHANGED <<kvVars, pc, faults, generatePEM, acctVars, certVars, wq,
                 wpc, wIdx, tickPending, ticks, got, tickExp, tickLock>>

\* time.NewTicker(12 * time.Hour): the ticker puts a tick in its channel,
\* which holds one.
Tick(p) ==
  /\ Alive(p)
  /\ pc[p] \notin {"deliver", "returned"}
  /\ ~tickPending[p]
  /\ ticks < MaxTicks
  /\ ticks' = ticks + 1
  /\ tickPending' = [tickPending EXCEPT ![p] = TRUE]
  /\ UNCHANGED <<kvVars, pc, faults, generatePEM, acctVars, certVars, wq,
                 wpc, wIdx, stopped, got, tickExp, tickLock>>

\* select, case <-t.C: ExpiresIn, then the comparison with
\* minimumDurationForRenewal.
SelTick(p) ==
  /\ Alive(p)
  /\ pc[p] = "select"
  /\ tickPending[p]
  /\ tickPending' = [tickPending EXCEPT ![p] = FALSE]
  /\ \E exp \in ExpiresIn :
       /\ tickExp' = [tickExp EXCEPT ![p] = exp]
       /\ Goto(p, IF exp = 0 THEN "select"
                  ELSE IF exp > MinimumDurationForRenewal THEN "r_lock"
                  ELSE "select")
  /\ tickLock' = [tickLock EXCEPT ![p] = "none"]
  /\ UNCHANGED <<kvVars, faults, generatePEM, acctVars, certVars, wq,
                 wpc, wIdx, stopped, ticks, got>>

\* select, case <-s.StopChan: return nil.
SelStop(p) ==
  /\ Alive(p)
  /\ pc[p] = "select"
  /\ stopped[p]
  /\ Goto(p, "returned")
  /\ UNCHANGED <<kvVars, faults, generatePEM, acctVars, certVars, wq, runVars>>

\* s.Lock(etcdClient, lockPath) of the tick.
RLock(p) ==
  /\ Alive(p)
  /\ pc[p] = "r_lock"
  /\ Lock(p, "r_renew", "r_wait", "select")
  /\ tickLock' = [tickLock EXCEPT ![p] =
       CASE pc'[p] = "r_renew" -> "ok"
         [] pc'[p] = "r_wait" -> "exists"
         [] OTHER -> "err"]
  /\ UNCHANGED <<generatePEM, acctVars, certVars, wq,
                 wpc, wIdx, stopped, tickPending, ticks, got, tickExp>>

RWaitWatch(p) ==
  /\ Alive(p)
  /\ pc[p] = "r_wait"
  /\ WaitWatch(p, "r_watching", "select")
  /\ UNCHANGED <<generatePEM, acctVars, certVars, wq, runVars>>

RWaitNext(p) ==
  /\ Alive(p)
  /\ pc[p] = "r_watching"
  /\ WaitNext(p, "r_wait", "select", "select")
  /\ UNCHANGED <<generatePEM, acctVars, certVars, wq, runVars>>

\* A renewal that builds the certificate anew and loses the domain list.
Renew_ResetDomains(c, n) == [Material(n) EXCEPT !.domains = <<>>]

\* Cert.Renew on success, c.Cert = cert: the resource of the n-th certificate
\* takes the place of the old one, the other fields of c stay.
Renew(c, n) == [c EXCEPT !.meta = n, !.cert = n, !.key = n]

\* A loop that gives up when the CA refuses the renewal.
RRenew_ReturnOnError(p) ==
  /\ Alive(p)
  /\ pc[p] = "r_renew"
  /\ \/ /\ issued' = issued + 1
        /\ mem' = [mem EXCEPT ![p] = Renew(mem[p], issued + 1)]
        /\ Goto(p, "r_save_cert")
     \/ /\ Goto(p, "returned")
        /\ UNCHANGED <<issued, mem>>
  /\ UNCHANGED <<kvVars, faults, generatePEM, acctVars, newc, branch, obtainCalls, wq, runVars>>

\* cert.Renew in the tick: RenewCertificate returns a certificate, or an
\* error, which is logged.
RRenew(p) ==
  /\ Alive(p)
  /\ pc[p] = "r_renew"
  /\ \/ /\ issued' = issued + 1
        /\ mem' = [mem EXCEPT ![p] = Renew(mem[p], issued + 1)]
        /\ Goto(p, "r_save_cert")
     \/ /\ Goto(p, "select")
        /\ UNCHANGED <<issued, mem>>
  /\ UNCHANGED <<kvVars, faults, generatePEM, acctVars, newc, branch, obtainCalls, wq, runVars>>

\* cert.Save of the tick; each write takes the field as it is then.
RSaveCert(p) ==
  /\ Alive(p)
  /\ pc[p] = "r_save_cert"
  /\ Put(p, "cert", mem[p].cert, "r_save_meta", "select")
  /\ UNCHANGED <<lockVars, generatePEM, acctVars, certVars, runVars>>

RSaveMeta(p) ==
  /\ Alive(p)
  /\ pc[p] = "r_save_meta"
  /\ Put(p, "meta", mem[p].meta,
         AfterSaveMeta(mem[p], "r_save_key", "select", "select"), "select")
  /\ UNCHANGED <<lockVars, generatePEM, acctVars, certVars, runVars>>

RSaveKey(p) ==
  /\ Alive(p)
  /\ pc[p] = "r_save_key"
  /\ Put(p, "key", mem[p].key, AfterSaveKey("r_save_pem", "select"), "select")
  /\ UNCHANGED <<lockVars, generatePEM, acctVars, certVars, runVars>>

RSavePem(p) ==
  /\ Alive(p)
  /\ pc[p] = "r_save_pem"
  /\ Put(p, "pem", PEM(mem[p]), "select", "select")
  /\ UNCHANGED <<lockVars, generatePEM, acctVars, certVars, runVars>>

\* ------------------------------------------------- Run, the watch goroutine

\* w.Next(ctx): the request reaches the store; from here on a change of the
\* certificate key is an event for this watcher.
WNext(p) ==
  /\ Alive(p)
  /\ wpc[p] = "w_next"
  /\ wpc' = [wpc EXCEPT ![p] = "w_wait"]
  /\ UNCHANGED <<kvVars, pc, faults, generatePEM, acctVars, certVars, wq,
                 wIdx, stopped, tickPending, ticks, got, tickExp, tickLock>>

\* A goroutine that reloads on every event.
WEvent_ReloadAlways(p) ==
  /\ Alive(p)
  /\ wpc[p] = "w_wait"
  /\ wq[p] # <<>>
  /\ wq' = [wq EXCEPT ![p] = Tail(wq[p])]
  /\ wIdx' = [wIdx EXCEPT ![p] = TRUE]
  /\ wpc' = [wpc EXCEPT ![p] = "w_reload_meta"]
  /\ UNCHANGED <<kvVars, pc, faults, generatePEM, acctVars, certVars,
                 stopped, tickPending, ticks, got, tickExp, tickLock>>

\* w.Next returns an event: Reload unless the action is get or delete.
WEvent(p) ==
  /\ Alive(p)
  /\ wpc[p] = "w_wait"
  /\ wq[p] # <<>>
  /\ wq' = [wq EXCEPT ![p] = Tail(wq[p])]
  /\ wIdx' = [wIdx EXCEPT ![p] = TRUE]
  /\ wpc' = [wpc EXCEPT ![p] =
       IF Head(wq[p]) # "get" /\ Head(wq[p]) # "delete"
       THEN "w_reload_meta" ELSE "w_next"]
  /\ UNCHANGED <<kvVars, pc, faults, generatePEM, acctVars, certVars,
                 stopped, tickPending, ticks, got, tickExp, tickLock>>

\* The stop cancels ctx: w.Next returns nil and the error, the error is
\* logged, and resp.Action dereferences nil.
WCancel(p) ==
  /\ Alive(p)
  /\ wpc[p] = "w_wait"
  /\ stopped[p]
  /\ wpc' = [wpc EXCEPT ![p] = "w_panicked"]
  /\ UNCHANGED <<kvVars, pc, faults, generatePEM, acctVars, certVars, wq,
                 wIdx, stopped, tickPending, ticks, got, tickExp, tickLock>>

\* w.Next fails for another reason: the same nil response.
WFail(p) ==
  /\ Alive(p)
  /\ wpc[p] = "w_wait"
  /\ Fault
  /\ wpc' = [wpc EXCEPT ![p] = "w_panicked"]
  /\ UNCHANGED <<kvVars, pc, generatePEM, acctVars, certVars, wq,
                 wIdx, stopped, tickPending, ticks, got, tickExp, tickLock>>

\* cert.Reload, one of loadMeta, loadCert, loadKey, on the object Run holds:
\* an error is logged and the goroutine goes back to w.Next.
WReload(p, k, next) ==
  /\ Alive(p)
  /\ \/ /\ store[k] # Absent
        /\ mem' = [mem EXCEPT ![p][k] = Val(k)]
        /\ wpc' = [wpc EXCEPT ![p] = next]
        /\ UNCHANGED faults
     \/ /\ store[k] = Absent
        /\ wpc' = [wpc EXCEPT ![p] = "w_next"]
        /\ UNCHANGED <<mem, faults>>
     \/ /\ Fault
        /\ wpc' = [wpc EXCEPT ![p] = "w_next"]
        /\ UNCHANGED mem
  /\ UNCHANGED <<kvVars, pc, generatePEM, acctVars, newc, branch, issued, obtainCalls, wq,
                 wIdx, stopped, tickPending, ticks, got, tickExp, tickLock>>

WReloadMeta(p) == wpc[p] = "w_reload_meta" /\ WReload(p, "meta", "w_reload_cert")

WReloadCert(p) == wpc[p] = "w_reload_cert" /\ WReload(p, "cert", "w_reload_key")

WReloadKey(p) == wpc[p] = "w_reload_key" /\ WReload(p, "key", "w_send")

\* ------------------------------------------------------------ Run, the whole

\* The steps of Run's own goroutine after generateCertificateIfNecessary.
MainStep(p) ==
  \/ SelTick(p) \/ SelStop(p)
  \/ RLock(p) \/ RWaitWatch(p) \/ RWaitNext(p)
  \/ RRenew(p)
  \/ RSaveCert(p) \/ RSaveMeta(p) \/ RSaveKey(p) \/ RSavePem(p)

\* The steps of the watch goroutine.
WatchStep(p) ==
  \/ WNext(p) \/ WEvent(p) \/ WCancel(p) \/ WFail(p)
  \/ WReloadMeta(p) \/ WReloadCert(p) \/ WReloadKey(p)

\* The consumer, the ticker.
EnvStep(p) == RecvMain(p) \/ RecvWatch(p) \/ Stop(p) \/ Tick(p)

\* Instance 1 has just been handed its certificate by
\* generateCertificateIfNecessary and starts its watch goroutine; the other
\* instances are in their renewal loops.  The store holds the record.
RunInit ==
  /\ QuietInit
  /\ generatePEM \in BOOLEAN
  /\ issued = 1
  /\ AccountReady
  /\ store = StoredRecord(AccountStore)
  /\ mem = [p \in Procs |-> Material(1)]
  /\ pc = [p \in Procs |-> IF p = 1 THEN "deliver" ELSE "select"]
  /\ wpc = [p \in Procs |-> IF p = 1 THEN "w_next" ELSE "off"]

RunNext ==
  \/ \E p \in Procs : MainStep(p) \/ WatchStep(p) \/ EnvStep(p)
  \/ Expire

SpecRun == RunInit /\ [][RunNext]_vars

\* The goroutines are scheduled and the store answers; the consumer, the
\* ticker and the failures of the store are under no obligation.
FairSpecRun ==
  /\ SpecRun
  /\ \A p \in Procs : WF_vars(MainStep(p) /\ faults' = faults)
  /\ \A p \in Procs : WF_vars(WatchStep(p) /\ faults' = faults)
  /\ WF_vars(Expire)

\* --------------------------------------- the watch goroutine on its own
\* Instance 1 with its watch goroutine and its consumer, and somebody outside
\* the service (another instance, an operator) who writes the keys of the
\* record and deletes the .cert key.

AdminSet(k, n) ==
  /\ \A p \in Procs : Len(wq[p]) < MaxPending
  /\ store' = [store EXCEPT ![k] = {n}]
  /\ wq' = IF k = "cert" THEN NotifyCert("set") ELSE wq
  /\ UNCHANGED <<lockVars, pc, faults, generatePEM, acctVars, certVars, runVars>>

AdminDelete ==
  /\ \A p \in Procs : Len(wq[p]) < MaxPending
  /\ store.cert # Absent
  /\ store' = [store EXCEPT !.cert = Absent]
  /\ wq' = NotifyCert("delete")
  /\ UNCHANGED <<lockVars, pc, faults, generatePEM, acctVars, certVars, runVars>>

WatchNext ==
  \/ \E p \in Procs : WatchStep(p) \/ RecvMain(p) \/ RecvWatch(p) \/ Stop(p)
  \/ \E k \in {"meta", "cert", "key"}, n \in {1, 2} : AdminSet(k, n)
  \/ AdminDelete

SpecWatch == RunInit /\ [][WatchNext]_vars

\* The positions of the watch goroutine inside cert.Reload, and the key each
\* reads.
ReloadKey ==
  [w_reload_meta |-> "meta", w_reload_cert |-> "cert", w_reload_key |-> "key"]

\* C20: on an event whose action is neither get nor delete the watch
\* goroutine goes to Reload, on a get or a delete it goes back to w.Next;
\* a Reload that fails goes back to w.Next; the goroutine comes to its send
\* only from the last read of a Reload with every read answered, and what the
\* consumer then receives is the certificate as reloaded.
C20_WatchForwarding ==
  [][\A p \in Procs :
       /\ (wpc[p] = "w_wait" /\ wpc'[p] \notin {"w_wait", "w_panicked"})
            => /\ wq[p] # <<>>
               /\ wpc'[p] = IF Head(wq[p]) \in {"get", "delete"}
                            THEN "w_next" ELSE "w_reload_meta"
       /\ (wpc[p] \in DOMAIN ReloadKey /\ wpc'[p] # wpc[p])
            => IF faults' = faults /\ store[ReloadKey[wpc[p]]] # Absent
               THEN /\ mem'[p][ReloadKey[wpc[p]]] = Val(ReloadKey[wpc[p]])
                    /\ wpc'[p] \in (DOMAIN ReloadKey) \cup {"w_send"}
               ELSE wpc'[p] = "w_next" /\ mem'[p] = mem[p]
       /\ (wpc[p] # "w_send" /\ wpc'[p] = "w_send") => wpc[p] = "w_reload_key"
       /\ (wpc[p] = "w_send" /\ wpc'[p] # "w_send")
            => got'[p] = mem[p] /\ wpc'[p] = "w_next"
       /\ (got'[p] # got[p]) => (wpc[p] = "w_send" \/ pc[p] = "deliver")]_vars

C20_Witness ==
  \E p \in Procs :
    /\ wpc[p] = "w_next"
    /\ wIdx[p]
    /\ wq[p] = <<>>
    /\ store.cert = Absent
    /\ got[p].cert = 2
    /\ got[p] = mem[p]
    /\ faults = 0

\* As FairSpecRun, with a consumer that receives whatever is sent to it.
FairSpecRunRecv ==
  /\ FairSpecRun
  /\ \A p \in Procs : WF_vars(RecvMain(p) \/ RecvWatch(p))

\* The certificate record as the store has it now.
StoredCert ==
  [isNil |-> FALSE, domains |-> Domains,
   meta |-> Val("meta"), cert |-> Val("cert"), key |-> Val("key")]

\* ------------------------------------------------------ Run, the properties

\* C5: a tick that finds less than minimumDurationForRenewal of validity left
\* is a tick in which the instance has tried to take the renewal lock by the
\* time it is back at the select.
C5_RenewsWhenBelowThreshold ==
  \A p \in Procs :
    (pc[p] = "select" /\ tickExp[p] > 0 /\ tickExp[p] < MinimumDurationForRenewal)
      => tickLock[p] # "none"

\* C6: a tick that finds more than minimumDurationForRenewal of validity left
\* is a tick without a lock attempt.
C6_IdleWhenAboveThreshold ==
  \A p \in Procs :
    tickExp[p] > MinimumDurationForRenewal => tickLock[p] = "none"

\* C7: an instance that took the renewal lock in a tick does not hold it any
\* more when the tick is over, whatever became of the renewal and of the save.
C7_LockReleasedAfterTick ==
  \A p \in Procs :
    (pc[p] = "select" /\ tickLock[p] = "ok") => store.lock # lockContents(p)

\* C8: once the stop is signalled Run returns, wherever it was; only a
\* failure of the store excuses it.
C8_StopLeadsToReturn ==
  \A p \in Procs : stopped[p] ~> (pc[p] = "returned" \/ faults > 0)

\* C9: at the select, with the stop signalled and a tick pending, the tick is
\* not the one that is taken.
C9_StopBeforeTick ==
  [][\A p \in Procs :
       (pc[p] = "select" /\ stopped[p] /\ tickPending[p]) => tickPending'[p]]_vars

\* C10: the stop does not make the watch goroutine fail; without a failure
\* of the store the goroutine never panics.
C10_WatchSurvivesStop ==
  \A p \in Procs : (stopped[p] /\ faults = 0) => wpc[p] # "w_panicked"

\* C18: once a renewed certificate is in the store, an instance with a watch
\* goroutine and a consumer that receives comes to a point where what its
\* consumer received last is the record of the store, metadata, certificate
\* and key; a failed store request or a stop excuses it.
C18_Convergence ==
  \A p \in Procs :
    (wpc[p] # "off" /\ store.cert # {Material(1).cert})
      ~> (got[p] = StoredCert \/ faults > 0 \/ stopped[p])

\* ------------------------------------------------------ account bootstrap
\* Run up to the call of generateCertificateIfNecessary:
\* createAccountIfNecessary, legoetcd.New (setupAccount) and RegisterAccount.
\* In the specifications of this section the lock key of the store is the
\* account lock, /lego/accounts/<email>/lock.

\* kapi.Get of LoadRegistration or LoadKey into the account of p: found says
\* where the task goes when the key is there, notFound when it is not
\* (client.IsKeyNotFound), fail on another error.
AcctGet(p, k, found, notFound, fail) ==
  \/ /\ store[k] # Absent
     /\ acct' = [acct EXCEPT ![p] =
          IF k = "reg" THEN [@ EXCEPT !.reg = Val(k)] ELSE [@ EXCEPT !.key = Val(k)]]
     /\ Goto(p, found)
     /\ UNCHANGED faults
  \/ /\ store[k] = Absent
     /\ Goto(p, notFound)
     /\ UNCHANGED <<acct, faults>>
  \/ /\ Fault
     /\ Goto(p, fail)
     /\ UNCHANGED acct

\* What is left of every account step.
AcctFrame == UNCHANGED <<generatePEM, certVars, runVars>>

\* createAccountIfNecessary: acc.Load, the registration first.
ALoadReg(p) ==
  /\ pc[p] = "a_load_reg"
  /\ AcctGet(p, "reg", "a_load_key", "a_lock", "a_err")
  /\ UNCHANGED <<kvVars, wq, acceptTOS, keyGen, agreeCalls>>
  /\ AcctFrame

\* acc.Load, the key; with both loaded createAccountIfNecessary returns nil
\* and Run goes on to legoetcd.New.
ALoadKey(p) ==
  /\ pc[p] = "a_load_key"
  /\ AcctGet(p, "akey", "n_load_key", "a_lock", "a_err")
  /\ UNCHANGED <<kvVars, wq, acceptTOS, keyGen, agreeCalls>>
  /\ AcctFrame

\* s.Lock(etcdClient, lockPath): an error that is not ErrLockExists falls
\* through to the LoadKey at the end.
ALock(p) ==
  /\ pc[p] = "a_lock"
  /\ Lock(p, "a_gen", "a_wait", "a_reload")
  /\ branch' = [branch EXCEPT ![p] =
       CASE pc'[p] = "a_gen" -> "self"
         [] pc'[p] = "a_wait" -> "other"
         [] OTHER -> "lockerr"]
  /\ UNCHANGED <<generatePEM, acctVars, mem, newc, issued, obtainCalls, wq, runVars>>

AWaitWatch(p) ==
  /\ pc[p] = "a_wait"
  /\ WaitWatch(p, "a_watching", "a_err")
  /\ UNCHANGED <<acctVars, wq>>
  /\ AcctFrame

AWaitNext(p) ==
  /\ pc[p] = "a_watching"
  /\ WaitNext(p, "a_wait", "a_reload", "a_err")
  /\ UNCHANGED <<acctVars, wq>>
  /\ AcctFrame

\* acc.GenerateKey, and Account.Save up to its first write: the registration
\* when acc has one, the key otherwise.
AGenerateKey(p) ==
  /\ pc[p] = "a_gen"
  /\ keyGen' = keyGen + 1
  /\ acct' = [acct EXCEPT ![p].key = keyGen + 1]
  /\ Goto(p, IF acct[p].reg.isNil THEN "a_save_key" ELSE "a_save_reg")
  /\ UNCHANGED <<kvVars, faults, wq, acceptTOS, agreeCalls>>
  /\ AcctFrame

\* acc.Save(etcdClient): saveRegistration when acc has a registration, then
\* saveKey.
ASave(p) ==
  /\ pc[p] \in {"a_save_reg", "a_save_key"}
  /\ IF pc[p] = "a_save_reg"
     THEN Put(p, "reg", acct[p].reg, "a_save_key", "a_unlock_err")
     ELSE Put(p, "akey", acct[p].key, "a_reload", "a_unlock_err")
  /\ UNCHANGED <<lockVars, acctVars>>
  /\ AcctFrame

\* acc.LoadKey at the end of createAccountIfNecessary; the deferred Unlock
\* follows when this process took the lock.
AReload(p) ==
  /\ pc[p] = "a_reload"
  /\ AcctGet(p, "akey",
             IF branch[p] = "self" THEN "a_unlock_ok" ELSE "n_load_key",
             IF branch[p] = "self" THEN "a_unlock_err" ELSE "a_err",
             IF branch[p] = "self" THEN "a_unlock_err" ELSE "a_err")
  /\ UNCHANGED <<kvVars, wq, acceptTOS, keyGen, agreeCalls>>
  /\ AcctFrame

AUnlockOk(p) ==
  /\ pc[p] = "a_unlock_ok"
  /\ Unlock(p, "n_load_key", "n_load_key")
  /\ UNCHANGED <<acctVars, wq>>
  /\ AcctFrame

AUnlockErr(p) ==
  /\ pc[p] = "a_unlock_err"
  /\ Unlock(p, "a_err", "a_err")
  /\ UNCHANGED <<acctVars, wq>>
  /\ AcctFrame

\* A setupAccount that generates a key without looking for the stored one.
NLoadKey_AlwaysGenerate(p) ==
  /\ pc[p] = "n_load_key"
  /\ keyGen' = keyGen + 1
  /\ acct' = [acct EXCEPT ![p] = [NewAccount EXCEPT !.key = keyGen + 1]]
  /\ Goto(p, "q_load_reg")
  /\ UNCHANGED <<kvVars, faults, wq, acceptTOS, agreeCalls>>
  /\ AcctFrame

\* legoetcd.New, setupAccount: a new Account, LoadKey, and GenerateKey when
\* the key is not found; the generated key is not saved here.
NLoadKey(p) ==
  /\ pc[p] = "n_load_key"
  /\ \/ /\ store.akey # Absent
        /\ acct' = [acct EXCEPT ![p] = [NewAccount EXCEPT !.key = Val("akey")]]
        /\ Goto(p, "q_load_reg")
        /\ UNCHANGED <<keyGen, faults>>
     \/ /\ store.akey = Absent
        /\ keyGen' = keyGen + 1
        /\ acct' = [acct EXCEPT ![p] = [NewAccount EXCEPT !.key = keyGen + 1]]
        /\ Goto(p, "q_load_reg")
        /\ UNCHANGED faults
     \/ /\ Fault
        /\ Goto(p, "a_err")
        /\ UNCHANGED <<acct, keyGen>>
  /\ UNCHANGED <<kvVars, wq, acceptTOS, agreeCalls>>
  /\ AcctFrame

\* A RegisterAccount that agrees whatever acceptTOS says.
TosNext_AutoAccept(r) == IF r.agreed THEN "a_done" ELSE "q_agree"

\* RegisterAccount from "do we need to accept TOS?" on, for registration r:
\* nothing to do, AgreeToTOS, or ErrMustAcceptTOS, which Run returns as
\* ErrTOSNotAccepted.
TosNext(r) ==
  IF r.agreed THEN "a_done"
  ELSE IF acceptTOS THEN "q_agree" ELSE "tos_err"

\* RegisterAccount: c.Account.LoadRegistration.
QLoadReg(p) ==
  /\ pc[p] = "q_load_reg"
  /\ \/ /\ store.reg # Absent
        /\ acct' = [acct EXCEPT ![p].reg = Val("reg")]
        /\ Goto(p, TosNext(Val("reg")))
        /\ UNCHANGED faults
     \/ /\ store.reg = Absent
        /\ Goto(p, "q_register")
        /\ UNCHANGED <<acct, faults>>
     \/ /\ Fault
        /\ Goto(p, "a_err")
        /\ UNCHANGED acct
  /\ UNCHANGED <<kvVars, wq, acceptTOS, keyGen, agreeCalls>>
  /\ AcctFrame

\* c.Account.Register(c.Client): the CA registers the key, without an
\* agreement, or refuses.
QRegister(p) ==
  /\ pc[p] = "q_register"
  /\ \/ /\ acct' = [acct EXCEPT ![p].reg = Registration(FALSE)]
        /\ Goto(p, "q_save_reg")
     \/ /\ Goto(p, "a_err")
        /\ UNCHANGED acct
  /\ UNCHANGED <<kvVars, faults, wq, acceptTOS, keyGen, agreeCalls>>
  /\ AcctFrame

\* c.Account.Save after Register: the registration, then the key.
QSaveReg(p) ==
  /\ pc[p] = "q_save_reg"
  /\ Put(p, "reg", acct[p].reg, "q_save_key", "a_err")
  /\ UNCHANGED <<lockVars, acctVars>>
  /\ AcctFrame

QSaveKey(p) ==
  /\ pc[p] = "q_save_key"
  /\ Put(p, "akey", acct[p].key, TosNext(acct[p].reg), "a_err")
  /\ UNCHANGED <<lockVars, acctVars>>
  /\ AcctFrame

\* c.Client.AgreeToTOS: the agreement is put in the registration and sent to
\* the CA.
QAgree(p) ==
  /\ pc[p] = "q_agree"
  /\ agreeCalls' = agreeCalls \cup {p}
  /\ \/ /\ acct' = [acct EXCEPT ![p].reg = Registration(TRUE)]
        /\ Goto(p, "t_save_reg")
     \/ /\ Goto(p, "a_err")
        /\ UNCHANGED acct
  /\ UNCHANGED <<kvVars, faults, wq, acceptTOS, keyGen>>
  /\ AcctFrame

\* c.Account.Save after AgreeToTOS.
TSaveReg(p) ==
  /\ pc[p] = "t_save_reg"
  /\ Put(p, "reg", acct[p].reg, "t_save_key", "a_err")
  /\ UNCHANGED <<lockVars, acctVars>>
  /\ AcctFrame

TSaveKey(p) ==
  /\ pc[p] = "t_save_key"
  /\ Put(p, "akey", acct[p].key, "a_done", "a_err")
  /\ UNCHANGED <<lockVars, acctVars>>
  /\ AcctFrame

\* The positions at which Run has left the account bootstrap: on to
\* generateCertificateIfNecessary, returned with an error, returned with
\* ErrTOSNotAccepted, dead of a panic.
AcctDone == {"a_done", "a_err", "tos_err", "panicked"}

\* createAccountIfNecessary with the account in the store: no lock, no write.
AcctLoadStep(p) == ALoadReg(p) \/ ALoadKey(p)

\* createAccountIfNecessary making the account.
AcctMakeStep(p) ==
  \/ ALock(p) \/ AWaitWatch(p) \/ AWaitNext(p)
  \/ AGenerateKey(p) \/ ASave(p)
  \/ AReload(p) \/ AUnlockOk(p) \/ AUnlockErr(p)

\* legoetcd.New and RegisterAccount.
RegisterStep(p) ==
  \/ NLoadKey(p) \/ QLoadReg(p)
  \/ QRegister(p) \/ QSaveReg(p) \/ QSaveKey(p)
  \/ QAgree(p) \/ TSaveReg(p) \/ TSaveKey(p)

AcctStep(p) == AcctLoadStep(p) \/ AcctMakeStep(p) \/ RegisterStep(p)

\* Every process starts Run; the store has no account, or the account of an
\* earlier Run, with or without the agreement.
AcctInit ==
  /\ QuietInit
  /\ generatePEM = FALSE
  /\ acceptTOS \in BOOLEAN
  /\ issued = 0
  /\ keyGen \in {0, 1}
  /\ \E agreed \in BOOLEAN :
       store = IF keyGen = 0 THEN EmptyStore
               ELSE [EmptyStore EXCEPT !.reg = {Registration(agreed)}, !.akey = {1}]
  /\ pc = [p \in Procs |-> "a_load_reg"]
  /\ mem = [p \in Procs |-> NilCert]
  /\ wpc = [p \in Procs |-> "off"]

AcctNext ==
  \/ \E p \in Procs : AcctStep(p)
  \/ Expire

SpecAcct == AcctInit /\ [][AcctNext]_vars

\* C13: a key stored at the account key path is never replaced by another
\* key, even when no request fails and no lock expires.
C13_AccountKeyWrittenOnce ==
  [][(store.akey # Absent /\ faults' = 0 /\ ~expired')
       => store'.akey = store.akey]_vars

\* C14: a step that writes the registration or the key of the account to the
\* store is the step of a process whose token is in the account lock key,
\* when no request has failed and no lock has expired.
C14_AccountWritesUnderLock ==
  [][((store'.reg # store.reg \/ store'.akey # store.akey)
        /\ faults' = 0 /\ ~expired')
       => \E p \in Procs : pc'[p] # pc[p] /\ store.lock = lockContents(p)]_vars

\* C16: with acceptTOS false AgreeToTOS is never called; Run goes on to the
\* certificate only with a registration that carries the agreement, and
\* where the registration carries none and acceptTOS is false it returns
\* ErrTOSNotAccepted.
C16_TosNeverAutoAccepted ==
  /\ ~acceptTOS => agreeCalls = {}
  /\ \A p \in Procs :
       /\ pc[p] = "a_done" => (~acct[p].reg.isNil /\ acct[p].reg.agreed)
       /\ pc[p] = "tos_err" => (~acceptTOS /\ ~acct[p].reg.agreed)
       /\ pc[p] \in {"q_agree", "t_save_reg", "t_save_key"} => acceptTOS
  /\ issued = 0
  /\ store.cert = Absent

C16_Witness ==
  \E p \in Procs :
    /\ pc[p] = "tos_err"
    /\ ~acceptTOS
    /\ ~acct[p].reg.isNil
    /\ ~acct[p].reg.agreed

\* ------------------------------------------- Run with the account in place
\* Run from its first line to the return of generateCertificateIfNecessary,
\* in a store that holds the account of an earlier Run, registration with the
\* agreement and key: createAccountIfNecessary, setupAccount and
\* RegisterAccount only read, and the steps that make an account are at
\* positions no process comes to.

\* Run, line 105: on to generateCertificateIfNecessary.
StartCert(p) ==
  /\ pc[p] = "a_done"
  /\ Goto(p, "g_load_meta")
  /\ UNCHANGED <<kvVars, faults, generatePEM, acctVars, certVars, wq, runVars>>

StartStep(p) ==
  \/ AcctLoadStep(p)
  \/ NLoadKey(p) \/ QLoadReg(p)
  \/ StartCert(p)
  \/ BootStep(p)

StartInit ==
  /\ QuietInit
  /\ AccountReady
  /\ generatePEM \in BOOLEAN
  /\ issued \in {0, 1}
  /\ store = IF issued = 0 THEN AccountStore ELSE StoredRecord(AccountStore)
  /\ pc = [p \in Procs |-> "a_load_reg"]
  /\ mem = [p \in Procs |-> NilCert]
  /\ wpc = [p \in Procs |-> "off"]

StartNext ==
  \/ \E p \in Procs : StartStep(p)
  \/ Expire

SpecStart == StartInit /\ [][StartNext]_vars

\* The positions of a Run that only reads: before, in and between the loads
\* of createAccountIfNecessary, setupAccount, RegisterAccount and LoadCert.
ReadingPcs ==
  {"a_load_reg", "a_load_key", "n_load_key", "q_load_reg", "a_done",
   "g_load_meta", "g_load_cert", "g_load_key", "g_ok"}

\* A Run has gone through, the account and the certificate record are in the
\* store, no lock is held, and every other Run is over or only reading.
Settled ==
  /\ \E q \in Procs : pc[q] = "g_ok"
  /\ store.reg # Absent /\ store.akey # Absent
  /\ RecordComplete
  /\ store.lock = Absent
  /\ \A r \in Procs : pc[r] \in ReadingPcs \cup {"a_err", "g_err", "panicked"}

\* C17: once a Run has gone through its bootstrap, a Run that finds what it
\* left (no request of its own failing) changes nothing in the store, takes
\* no lock, calls the CA for nothing, and leaves the same situation behind.
C17_SecondBootstrapReadsOnly ==
  [][(Settled /\ faults' = faults)
       => /\ store' = store
          /\ issued' = issued
          /\ obtainCalls' = obtainCalls
          /\ agreeCalls' = agreeCalls
          /\ keyGen' = keyGen
          /\ Settled']_vars

C17_Witness ==
  /\ Settled
  /\ faults = 0
  /\ \A p \in Procs : pc[p] = "g_ok" /\ ~mem[p].isNil

\* ------------------------------------------ Run, failures and start-up order

\* The step of instance p is a failure of its tick: ExpiresIn returns an
\* error, WaitForLockDeletion returns an error, RenewCertificate returns an
\* error, or a write of Save returns an error.
TickFailure(p) ==
  \/ pc[p] = "select" /\ tickPending[p] /\ ~tickPending'[p] /\ tickExp'[p] = 0
  \/ pc[p] \in {"r_wait", "r_watching"} /\ pc'[p] # pc[p] /\ faults' # faults
  \/ pc[p] = "r_renew" /\ pc'[p] # pc[p] /\ issued' = issued
  \/ /\ pc[p] \in {"r_save_cert", "r_save_meta", "r_save_key", "r_save_pem"}
     /\ pc'[p] # pc[p]
     /\ faults' # faults

\* C21: a failure of the expiry query, of the lock wait, of the renewal or
\* of the save during a tick leaves Run in its select loop: Run does not
\* return, no value reaches the consumer, no event is queued for a watcher,
\* and the goroutine is where it was.
C21_TickFailuresIsolated ==
  [][\A p \in Procs : TickFailure(p) =>
       /\ pc'[p] = "select"
       /\ got' = got
       /\ wq' = wq
       /\ wpc' = wpc
       /\ stopped' = stopped]_vars

\* The save of a renewal failed after the certificate write and the
\* instance is back in its select loop.
C21_Witness ==
  \E p \in Procs :
    /\ pc[p] = "select"
    /\ faults = 1
    /\ tickLock[p] = "ok"
    /\ \A q \in Procs \ {p} : tickLock[q] # "ok"
    /\ issued = 2
    /\ store.cert = {2}
    /\ store.meta = {1}

\* C22: when the w.Next of the watch goroutine returns an error while the
\* instance is not stopped, the goroutine issues w.Next again.
C22_WatchErrorRetries ==
  [][\A p \in Procs :
       (wpc[p] = "w_wait" /\ ~stopped[p] /\ faults' # faults /\ wpc'[p] # wpc[p])
         => wpc'[p] = "w_next"]_vars

\* C24: the consumer receives nothing from the watch goroutine while the
\* initial send of Run is still waiting for it; its first value is the one
\* Run sends.
C24_InitialDeliveryFirst ==
  [][\A p \in Procs :
       (wpc[p] = "w_send" /\ wpc'[p] # wpc[p]) => pc[p] # "deliver"]_vars

\* C29: what the consumer receives from the watch goroutine is one record:
\* certificate, private key and metadata of the same Save.
C29_DeliveredRecordConsistent ==
  [][\A p \in Procs :
       (faults = 0 /\ wpc[p] = "w_send" /\ wpc'[p] # wpc[p])
         => got'[p].cert = got'[p].key /\ got'[p].cert = got'[p].meta]_vars

\* C30: a step of the watch goroutine leaves the certificate object of its
\* instance as it is; only the renewal writes it.
C30_WatchNeverWritesCert ==
  [][\A p \in Procs : wpc'[p] # wpc[p] => mem'[p] = mem[p]]_vars

\* ------------------------------------------------ waiting for the lock key

\* A caller inside WaitForLockDeletion goes on, and a request of its that
\* does not fail is answered; nothing obliges anybody to call Lock or Unlock.
FairSpecLock ==
  /\ SpecLock
  /\ \A p \in Procs :
       WF_vars((CallWaitWatch(p) \/ CallWaitNext(p)) /\ faults' = faults)

\* Somebody outside the service removes the lock key with a plain delete, as
\* an operator does for a lock whose holder is gone: the event is "delete".
AdminRemoveLock ==
  /\ store.lock # Absent
  /\ store' = [store EXCEPT !.lock = Absent]
  /\ lockEv' = NotifyLock("delete")
  /\ okSet' = {}
  /\ exSet' = {}
  /\ UNCHANGED <<expired, pc, faults, generatePEM, acctVars, certVars, wq, runVars>>

BootOpNext ==
  \/ BootNext
  \/ AdminRemoveLock

SpecBootOp == BootInit /\ [][BootOpNext]_vars

\* C25: a process of the certificate bootstrap that found the lock held,
\* waited, and comes back from the wait while the record is still not in
\* the store goes to Lock again.
C25_WaiterRetriesWhenAbsent ==
  [][\A p \in Procs :
       (pc[p] = "g_reload" /\ branch[p] = "other" /\ ~RecordComplete
          /\ pc'[p] # pc[p])
         => pc'[p] = "g_lock"]_vars

\* C26: a process whose Lock returned ErrLockExists and whose lock key is
\* released before its watch is in place comes back from
\* WaitForLockDeletion, unless a request fails or the key is taken again.
C26_NoLostWakeup ==
  \A p \in Procs :
    (pc[p] = "denied" /\ store.lock = Absent /\ ~expired)
      ~> (pc[p] = "idle" \/ faults > 0 \/ store.lock # Absent \/ expired)

\* C27: a process waiting in WaitForLockDeletion that receives the
\* notification of the expiry of the lock key returns (nil) on it.
C27_ExpiryWakesWaiter ==
  [][\A p \in Procs :
       (pc[p] = "watching" /\ lockEv[p] = "expire"
          /\ pc'[p] # pc[p] /\ faults' = faults)
         => pc'[p] = "idle"]_vars

\* C28: WaitForLockDeletion returns nil only on a removal of the lock key
\* or on a key that is not there; after an event that is no removal it goes
\* on waiting, and when the key was removed before its next watch is in
\* place it returns all the same; an error of the request is returned.
C28_WaitReturnsOnlyOnRemoval ==
  [][\A p \in Procs :
       /\ (pc[p] = "watching" /\ pc'[p] = "idle" /\ faults' = faults)
            => lockEv[p] \in {"delete", "compareAndDelete", "expire"}
       /\ (pc[p] = "watching" /\ lockEv[p] = "create" /\ pc'[p] # pc[p]
             /\ faults' = faults)
            => pc'[p] = "wait_create"
       /\ (pc[p] = "wait_create" /\ store.lock = Absent /\ pc'[p] # pc[p]
             /\ faults' = faults)
            => pc'[p] = "idle"
       /\ (pc[p] \in {"wait", "wait_create", "watching"} /\ pc'[p] # pc[p]
             /\ faults' # faults)
            => pc'[p] = "idle"]_vars

\* C23: a Run whose Lock request of the certificate bootstrap failed with an
\* error other than ErrLockExists ends by returning an error: it does not
\* panic, nothing reaches its consumer and its watch goroutine is not started.
C23_BootstrapFailureReturnsError ==
  \A p \in Procs :
    (branch[p] = "lockerr" /\ pc[p] \in BootDone)
      => /\ pc[p] = "g_err"
         /\ got[p].isNil
         /\ wpc[p] = "off"

\* ------------------------------------------------ writes and the lock key

\* The positions of cert.Save in generateCertificateIfNecessary.
GenSavePcs == {"g_save_cert", "g_save_meta", "g_save_key", "g_save_pem"}

\* C31: a process of the bootstrap writes a key of the certificate record
\* only while the lock key is in the store with its own token.
C31_WritesOnlyUnderOwnLock ==
  [][\A p \in Procs :
       (pc[p] \in GenSavePcs /\ pc'[p] # pc[p] /\ faults' = faults)
         => store.lock = lockContents(p)]_vars

\* C32: a Lock of the account bootstrap whose request fails with an error
\* other than ErrLockExists hands that error back, and
\* createAccountIfNecessary returns with an error there and then: it does not
\* go on to the LoadKey at its end and the process does not panic.
C32_LockErrorIsFatal ==
  [][\A p \in Procs :
       (pc[p] = "a_lock" /\ faults' # faults /\ pc'[p] # pc[p])
         => pc'[p] = "a_err"]_vars

\* C33: Cert.Renew sends no write to the store and leaves the domain list
\* as it is; when the CA answers with a certificate the material in memory
\* is that certificate's, when the CA refuses the material is what it was.
C33_RenewOnlyInMemory ==
  [][\A p \in Procs :
       (pc[p] = "r_renew" /\ pc'[p] # pc[p]) =>
         /\ store' = store
         /\ wq' = wq
         /\ mem'[p].domains = mem[p].domains
         /\ IF pc'[p] = "r_save_cert"
            THEN /\ issued' = issued + 1
                 /\ mem'[p].cert = issued'
                 /\ mem'[p].key = issued'
                 /\ mem'[p].meta = issued'
            ELSE mem'[p] = mem[p] /\ issued' = issued]_vars

\* A renewal has just succeeded: the new material is in memory with the
\* domain list, the store still has the old record.
C33_Witness ==
  \E p \in Procs :
    /\ pc[p] = "r_save_cert"
    /\ mem[p].cert = 2
    /\ mem[p].key = 2
    /\ mem[p].domains = Domains
    /\ store.cert = {1}
    /\ store.key = {1}

\* C34: in a tick whose Lock returned ErrLockExists the instance calls no
\* renewal and writes nothing to the store, and when the notification that
\* the lock key is gone reaches its wait it is back in its select loop, ready
\* for the next tick.
C34_HeldByOtherTickOnlyWaits ==
  [][\A p \in Procs :
       /\ (tickLock[p] = "exists" /\ pc'[p] # pc[p])
            => store' = store /\ issued' = issued
       /\ (pc[p] = "r_watching" /\ pc'[p] # pc[p] /\ faults' = faults
             /\ lockEv[p] \in {"delete", "compareAndDelete", "expire"})
            => pc'[p] = "select"]_vars

\* C35: the watch goroutine that has reloaded stays at its send, takes no
\* event and issues no w.Next, until the consumer receives the certificate it
\* reloaded; then it issues the next w.Next.
C35_BlockingSend ==
  [][\A p \in Procs :
       wpc[p] = "w_send" =>
         IF wpc'[p] = "w_send"
         THEN /\ Len(wq'[p]) >= Len(wq[p])
              /\ SubSeq(wq'[p], 1, Len(wq[p])) = wq[p]
         ELSE /\ wpc'[p] = "w_next"
              /\ got'[p] = mem[p]
              /\ wq'[p] = wq[p]]_vars

\* The goroutine is at its send with a certificate the consumer does not
\* have yet, and the next change is already waiting.
C35_Witness ==
  \E p \in Procs :
    /\ wpc[p] = "w_send"
    /\ wq[p] # <<>>
    /\ got[p] # mem[p]
    /\ faults = 0

\* ------------------------------------------------- Save and the later load

\* C36: once a Save has returned nil with no store request failed, the
\* three keys LoadCert reads are in the store, so a LoadCert for the same
\* domains returns the certificate.
C36_SavedRecordLoads ==
  \A p \in Procs : (pc[p] = "s_ok" /\ faults = 0) => RecordComplete

\* C37: a Save with pem of a certificate without private key, which can only
\* return an error (ErrNoPemForCSR or the error of a request), writes no key
\* of the certificate record.
C37_FailedSaveWritesNothing ==
  [][\A p \in Procs :
       (generatePEM /\ mem[p].key = 0 /\ pc'[p] # pc[p])
         => store' = store]_vars

====
